---- MODULE Spec2Model ----
(***************************************************************************)
(* Model of jupyter_console/ptshell.py: the prompt_toolkit front end of    *)
(* the Jupyter console.  IPythonPTCompleter adapts the IPython completer,  *)
(* PTInteractiveShell preloads the history, binds Enter (ControlJ) and     *)
(* ControlC, and runs the read / run_cell loop of interact().              *)
(*                                                                         *)
(* Texts are sequences of one-character strings.  The collaborators that   *)
(* are not part of the file (the kernel, the completeness checker, the     *)
(* completion engine, the user at the terminal) are nondeterministic       *)
(* inputs drawn from small sets.                                           *)
(***************************************************************************)
EXTENDS Integers, Sequences, FiniteSets, TLC

VARIABLES
    pc,               \* position of the controller (see PcValues)
    keep_running,     \* self.keep_running
    text,             \* pt_cli.application.buffer.text
    cursor_position,  \* buffer.cursor_position, 0 .. Len(text)
    is_returnable,    \* buffer.accept_action.is_returnable
    document,         \* value returned by pt_cli.run: None or a document text
    run_cell_args,    \* arguments of the run_cell call in flight, or None
    rl_next_input,    \* self.rl_next_input
    wait_result,      \* what wait_for_kernel returned: None before it returns
    stderr,           \* lines printed to sys.stderr
    n_wait,           \* calls of wait_for_kernel
    n_sep,            \* separator lines printed by the loop
    n_reads,          \* calls of pt_cli.run
    n_final,          \* reads that returned a document
    n_dispatch,       \* calls of run_cell
    calls,            \* the calls the last step made or saw return, in order
    raw_tail,         \* cells returned by history_manager.get_tail
    history,          \* strings of the InMemoryHistory
    completions       \* Completion objects yielded by the last get_completions

vars == << pc, keep_running, text, cursor_position, is_returnable, document,
           run_cell_args, rl_next_input, wait_result, stderr, n_wait, n_sep,
           n_reads, n_final, n_dispatch, calls, raw_tail, history, completions >>

----------------------------------------------------------------------------
(* Bounds of the model *)

MaxLen == 4        \* longest buffer text
MaxIndent == 2     \* largest indent the completeness check suggests
MaxReads == 3      \* reads one run of interact may start
MaxTail == 5       \* cells in the raw history tail
MaxMatches == 2    \* candidates the completion engine returns

\* An optional value is a tuple of length 0 (Python's None) or 1
None == <<>>
Some(v) == <<v>>
NL == "\n"
SP == " "
Chars == {"a", SP, NL}
Whitespace == {SP, NL}

PcValues == {"new", "not_started", "awaiting_kernel", "loop", "reading",
             "read_done", "executing", "confirm_exit", "returned",
             "completing", "completed"}

----------------------------------------------------------------------------
(* Text helpers: str and prompt_toolkit Document operations the file uses *)

RECURSIVE Spaces(_)
Spaces(n) == IF n <= 0 THEN <<>> ELSE <<SP>> \o Spaces(n - 1)

\* s.rstrip()
RECURSIVE RStrip(_)
RStrip(s) ==
    IF s = <<>> THEN <<>>
    ELSE IF s[Len(s)] \in Whitespace THEN RStrip(SubSeq(s, 1, Len(s) - 1))
    ELSE s

RECURSIVE LStrip(_)
LStrip(s) ==
    IF s = <<>> THEN <<>>
    ELSE IF Head(s) \in Whitespace THEN LStrip(Tail(s))
    ELSE s

\* s.strip()
Strip(s) == LStrip(RStrip(s))

\* text.split('\n')
RECURSIVE Split(_)
Split(s) ==
    IF s = <<>> THEN << <<>> >>
    ELSE LET r == Split(Tail(s)) IN
         IF Head(s) = NL THEN << <<>> >> \o r
         ELSE << <<Head(s)>> \o r[1] >> \o Tail(r)

CountNL(s) == Cardinality({i \in 1..Len(s) : s[i] = NL})

\* Document.line_count
line_count(t) == Len(Split(t))

\* Document.cursor_position_row
cursor_position_row(t, c) == CountNL(SubSeq(t, 1, c))

\* Document.cursor_position_col
cursor_position_col(t, c) == Len(Split(SubSeq(t, 1, c))[cursor_position_row(t, c) + 1])

\* Document.current_line
current_line(t, c) == Split(t)[cursor_position_row(t, c) + 1]

\* Document.on_last_line
on_last_line(t, c) == cursor_position_row(t, c) = line_count(t) - 1

\* not line or line.isspace()
IsBlankLine(l) == \A i \in 1..Len(l) : l[i] \in Whitespace

\* Document.empty_line_count_at_the_end()
RECURSIVE EmptyTail(_)
EmptyTail(ls) ==
    IF ls = <<>> THEN 0
    ELSE IF IsBlankLine(ls[Len(ls)]) THEN 1 + EmptyTail(SubSeq(ls, 1, Len(ls) - 1))
    ELSE 0

empty_line_count_at_the_end(t) == EmptyTail(Split(t))

\* Buffer.insert_text(data): data goes in at the cursor, the cursor moves after it
InsertAt(t, c, data) == SubSeq(t, 1, c) \o data \o SubSeq(t, c + 1, Len(t))

\* One call a step made or saw return: the callee, its arguments, its result
Call(f, a, r) == [f |-> f, a |-> a, r |-> r]

----------------------------------------------------------------------------
(* Inputs from the collaborators *)

\* input_splitter.check_complete(text) -> (status, indent)
CheckResults ==
    {<<"complete", None>>, <<"invalid", None>>}
        \cup {<<"incomplete", i>> : i \in {None} \cup {Some(n) : n \in 0..MaxIndent}}

\* values the shell may leave in rl_next_input: None, "" or "a"
NextInputs == {None, Some(<<>>), Some(<<"a">>)}

\* Python truth of an optional string: None and "" are false
Truthy(opt) == opt # None /\ opt[1] # <<>>

\* A variant of DocumentTruthy that takes a document of empty text as false
DocumentTruthy_NonEmpty(d) == d # None /\ d[1] # <<>>

\* Python truth of the value pt_cli.run returned: a Document object defines
\* neither __bool__ nor __len__, so only None is false
DocumentTruthy(d) == d # None

\* indent or 0
IndentOr0(indent) == IF indent = None THEN 0 ELSE indent[1]

----------------------------------------------------------------------------
(* PTInteractiveShell *)

LoopVars == << keep_running, is_returnable, rl_next_input, wait_result, stderr,
               n_wait, n_sep, n_reads, n_dispatch >>
SideVars == << raw_tail, history, completions >>

\* def ask_exit(self)
ask_exit == keep_running' = FALSE

\* The text of the buffer pt_cli.run hands to pre_run: the buffer of the
\* previous read has been reset
FreshBufferText == <<>>

\* A variant of pre_prompt that does not clear rl_next_input
pre_prompt_NoClear(buffer_text) ==
    /\ text' = IF Truthy(rl_next_input) THEN rl_next_input[1] ELSE buffer_text
    /\ rl_next_input' = rl_next_input

\* def pre_prompt(self), run as pre_run of pt_cli.run; buffer_text is the text
\* of the buffer when it is called
pre_prompt(buffer_text) ==
    IF Truthy(rl_next_input)
    THEN /\ text' = rl_next_input[1]
         /\ rl_next_input' = None
    ELSE /\ text' = buffer_text
         /\ rl_next_input' = rl_next_input

\* A variant of PlainNewlineCase that looks at the last line only
PlainNewlineCase_LastLineOnly(t, c) == ~on_last_line(t, c)

\* The test of the Enter binding that sends the key to a plain newline
PlainNewlineCase(t, c) ==
    ~(on_last_line(t, c)
        \/ cursor_position_row(t, c) >= line_count(t) - empty_line_count_at_the_end(t))

\* A variant of AcceptCase with the status test inverted
AcceptCase_Inverted(status, returnable) == (status = "incomplete") /\ returnable

\* A variant of AcceptCase that lets a complete input through unconditionally
AcceptCase_CompleteAlone(status, returnable) ==
    status = "complete" \/ ((status # "incomplete") /\ returnable)

\* The test of the Enter binding that finalizes the input
AcceptCase(status, returnable) == (status # "incomplete") /\ returnable

\* A variant of IndentText that leaves the auto-indent out
IndentText_NoIndent(indent) == <<NL>>

\* The text the Enter binding inserts when it does not finalize
IndentText(indent) == <<NL>> \o Spaces(IndentOr0(indent))

\* Keys.ControlJ binding; (status, indent) is what check_complete answers.
\* b.newline() is taken to insert one line ending at the cursor, and
\* validate_and_handle to hand the buffer's document to pt_cli.run (no
\* validator is configured); what the UI layer records in its own history on
\* accept is not followed here, `history` holds the preload
ControlJ(status, indent) ==
    /\ pc = "reading"
    /\ IF PlainNewlineCase(text, cursor_position)
       THEN /\ Len(text) + 1 <= MaxLen
            /\ text' = InsertAt(text, cursor_position, <<NL>>)
            /\ cursor_position' = cursor_position + 1
            /\ calls' = << Call("newline", <<>>, <<>>) >>
            /\ UNCHANGED << pc, document, n_final >>
       ELSE IF AcceptCase(status, is_returnable)
       THEN /\ document' = Some(text)
            /\ n_final' = n_final + 1
            /\ pc' = "read_done"
            /\ calls' = << Call("check_complete", <<text>>, <<status, indent>>),
                           Call("validate_and_handle", <<>>, <<>>) >>
            /\ UNCHANGED << text, cursor_position >>
       ELSE /\ Len(text) + Len(IndentText(indent)) <= MaxLen
            /\ text' = InsertAt(text, cursor_position, IndentText(indent))
            /\ cursor_position' = cursor_position + Len(IndentText(indent))
            /\ calls' = << Call("check_complete", <<text>>, <<status, indent>>),
                           Call("insert_text", <<IndentText(indent)>>, <<>>) >>
            /\ UNCHANGED << pc, document, n_final >>
    /\ UNCHANGED << run_cell_args, LoopVars, SideVars >>

EnterKey == \E r \in CheckResults : ControlJ(r[1], r[2])

\* A variant of ControlC that aborts the read as well
ControlC_EndsRead ==
    /\ pc = "reading"
    /\ text' = <<>>
    /\ cursor_position' = 0
    /\ calls' = << Call("reset", <<>>, <<>>) >>
    /\ document' = None
    /\ pc' = "read_done"
    /\ UNCHANGED << n_final, run_cell_args, LoopVars, SideVars >>

\* Keys.ControlC binding: event.current_buffer.reset()
ControlC ==
    /\ pc = "reading"
    /\ text' = <<>>
    /\ cursor_position' = 0
    /\ calls' = << Call("reset", <<>>, <<>>) >>
    /\ UNCHANGED << pc, document, n_final, run_cell_args, LoopVars, SideVars >>

\* The user types a character at the cursor (the UI layer's own binding)
InsertChar ==
    /\ pc = "reading"
    /\ Len(text) + 1 <= MaxLen
    /\ \E ch \in Chars \ {NL} :
          text' = InsertAt(text, cursor_position, <<ch>>)
    /\ cursor_position' = cursor_position + 1
    /\ calls' = << Call("insert_char", <<>>, <<>>) >>
    /\ UNCHANGED << pc, document, n_final, run_cell_args, LoopVars, SideVars >>

\* The user moves the cursor (the UI layer's own bindings)
CursorMove ==
    /\ pc = "reading"
    /\ \E p \in 0..Len(text) :
          /\ p # cursor_position
          /\ cursor_position' = p
    /\ calls' = << Call("cursor_move", <<>>, <<>>) >>
    /\ UNCHANGED << pc, text, document, n_final, run_cell_args, LoopVars, SideVars >>

\* interact(): entry, the call of wait_for_kernel
InteractStart ==
    /\ pc = "not_started"
    /\ pc' = "awaiting_kernel"
    /\ n_wait' = n_wait + 1
    /\ calls' = <<>>
    /\ UNCHANGED << keep_running, text, cursor_position, is_returnable, document,
                    run_cell_args, rl_next_input, wait_result, stderr, n_sep,
                    n_reads, n_final, n_dispatch, SideVars >>

\* A variant of WaitReturn that goes on to the loop after a timeout
WaitReturn_NoReturn(ready) ==
    /\ pc = "awaiting_kernel"
    /\ wait_result' = Some(ready)
    /\ stderr' = IF ready THEN stderr ELSE Append(stderr, "Kernel did not respond\n")
    /\ calls' = << Call("wait_for_kernel", <<>>, <<ready>>) >>
    /\ pc' = "loop"
    /\ UNCHANGED << keep_running, text, cursor_position, is_returnable, document,
                    run_cell_args, rl_next_input, n_wait, n_sep, n_reads, n_final,
                    n_dispatch, SideVars >>

\* interact(): wait_for_kernel returned `ready`
WaitReturn(ready) ==
    /\ pc = "awaiting_kernel"
    /\ wait_result' = Some(ready)
    /\ IF ~ready
       THEN /\ stderr' = Append(stderr, "Kernel did not respond\n")
            /\ calls' = << Call("wait_for_kernel", <<>>, <<ready>>),
                           Call("print", <<"Kernel did not respond\n">>, <<>>) >>
            /\ pc' = "returned"
       ELSE /\ stderr' = stderr
            /\ calls' = << Call("wait_for_kernel", <<>>, <<ready>>) >>
            /\ pc' = "loop"
    /\ UNCHANGED << keep_running, text, cursor_position, is_returnable, document,
                    run_cell_args, rl_next_input, n_wait, n_sep, n_reads, n_final,
                    n_dispatch, SideVars >>

WaitForKernel == \E ready \in BOOLEAN : WaitReturn(ready)

\* A variant of LoopTest whose while test ignores keep_running
LoopTest_IgnoresKeepRunning ==
    /\ pc = "loop"
    /\ n_reads < MaxReads
    /\ n_sep' = n_sep + 1
    /\ n_reads' = n_reads + 1
    /\ pre_prompt(FreshBufferText)
    /\ cursor_position' = 0
    /\ document' = None
    /\ calls' = << Call("print", <<NL>>, <<>>), Call("pt_cli.run", <<>>, <<>>) >>
    /\ pc' = "reading"
    /\ UNCHANGED << keep_running, is_returnable, run_cell_args, wait_result, stderr,
                    n_wait, n_final, n_dispatch, SideVars >>

\* A variant of LoopTest that prints the separator before the first read only
LoopTest_SeparatorOnce ==
    /\ pc = "loop"
    /\ IF keep_running
       THEN /\ n_reads < MaxReads
            /\ n_sep' = IF n_reads = 0 THEN n_sep + 1 ELSE n_sep
            /\ n_reads' = n_reads + 1
            /\ pre_prompt(FreshBufferText)
            /\ cursor_position' = 0
            /\ document' = None
            /\ calls' = IF n_reads = 0
                        THEN << Call("print", <<NL>>, <<>>), Call("pt_cli.run", <<>>, <<>>) >>
                        ELSE << Call("pt_cli.run", <<>>, <<>>) >>
            /\ pc' = "reading"
       ELSE /\ pc' = "returned"
            /\ calls' = <<>>
            /\ UNCHANGED << n_sep, n_reads, text, cursor_position, document,
                            rl_next_input >>
    /\ UNCHANGED << keep_running, is_returnable, run_cell_args, wait_result, stderr,
                    n_wait, n_final, n_dispatch, SideVars >>

\* interact(): the while test, the separator and the start of pt_cli.run
LoopTest ==
    /\ pc = "loop"
    /\ IF keep_running
       THEN /\ n_reads < MaxReads
            /\ n_sep' = n_sep + 1
            /\ n_reads' = n_reads + 1
            /\ pre_prompt(FreshBufferText)
            /\ cursor_position' = 0
            /\ document' = None
            /\ calls' = << Call("print", <<NL>>, <<>>), Call("pt_cli.run", <<>>, <<>>) >>
            /\ pc' = "reading"
       ELSE /\ pc' = "returned"
            /\ calls' = <<>>
            /\ UNCHANGED << n_sep, n_reads, text, cursor_position, document,
                            rl_next_input >>
    /\ UNCHANGED << keep_running, is_returnable, run_cell_args, wait_result, stderr,
                    n_wait, n_final, n_dispatch, SideVars >>

\* pt_cli.run raises EOFError: interact() asks the exit confirmation
EndOfInput ==
    /\ pc = "reading"
    /\ pc' = "confirm_exit"
    /\ calls' = <<>>
    /\ UNCHANGED << text, cursor_position, document, n_final, run_cell_args,
                    LoopVars, SideVars >>

\* A variant of ConfirmReturn that calls ask_exit whatever the answer is
ConfirmReturn_AlwaysExit(yes) ==
    /\ pc = "confirm_exit"
    /\ ask_exit
    /\ calls' = << Call("ask_yes_no", <<>>, <<yes>>), Call("ask_exit", <<>>, <<>>) >>
    /\ pc' = "loop"
    /\ UNCHANGED << text, cursor_position, is_returnable, document, run_cell_args,
                    rl_next_input, wait_result, stderr, n_wait, n_sep, n_reads,
                    n_final, n_dispatch, SideVars >>

\* A variant of ConfirmReturn that does not call ask_exit
ConfirmReturn_NoAskExit(yes) ==
    /\ pc = "confirm_exit"
    /\ calls' = << Call("ask_yes_no", <<>>, <<yes>>) >>
    /\ pc' = "loop"
    /\ UNCHANGED << keep_running, text, cursor_position, is_returnable, document,
                    run_cell_args, rl_next_input, wait_result, stderr, n_wait,
                    n_sep, n_reads, n_final, n_dispatch, SideVars >>

\* ask_yes_no returned `yes`
ConfirmReturn(yes) ==
    /\ pc = "confirm_exit"
    /\ IF yes
       THEN /\ ask_exit
            /\ calls' = << Call("ask_yes_no", <<>>, <<yes>>),
                           Call("ask_exit", <<>>, <<>>) >>
       ELSE /\ keep_running' = keep_running
            /\ calls' = << Call("ask_yes_no", <<>>, <<yes>>) >>
    /\ pc' = "loop"
    /\ UNCHANGED << text, cursor_position, is_returnable, document, run_cell_args,
                    rl_next_input, wait_result, stderr, n_wait, n_sep, n_reads,
                    n_final, n_dispatch, SideVars >>

ConfirmExit == \E yes \in BOOLEAN : ConfirmReturn(yes)

\* pt_cli.run returns without a document
ReadReturnsNone ==
    /\ pc = "reading"
    /\ document' = None
    /\ pc' = "read_done"
    /\ calls' = <<>>
    /\ UNCHANGED << text, cursor_position, n_final, run_cell_args, LoopVars, SideVars >>

\* A variant of Dispatch that does not wait for run_cell to return
Dispatch_NoWait ==
    /\ pc = "read_done"
    /\ IF DocumentTruthy(document)
       THEN /\ run_cell_args' = << document[1], TRUE >>
            /\ n_dispatch' = n_dispatch + 1
            /\ calls' = << Call("run_cell", << document[1], TRUE >>, <<>>) >>
       ELSE /\ calls' = <<>>
            /\ UNCHANGED << run_cell_args, n_dispatch >>
    /\ pc' = "loop"
    /\ UNCHANGED << keep_running, text, cursor_position, is_returnable, document,
                    rl_next_input, wait_result, stderr, n_wait, n_sep, n_reads,
                    n_final, SideVars >>

\* interact(): the else branch of the try, `if document: self.run_cell(...)`
Dispatch ==
    /\ pc = "read_done"
    /\ IF DocumentTruthy(document)
       THEN /\ run_cell_args' = << document[1], TRUE >>
            /\ n_dispatch' = n_dispatch + 1
            /\ calls' = << Call("run_cell", << document[1], TRUE >>, <<>>) >>
            /\ pc' = "executing"
       ELSE /\ pc' = "loop"
            /\ calls' = <<>>
            /\ UNCHANGED << run_cell_args, n_dispatch >>
    /\ UNCHANGED << keep_running, text, cursor_position, is_returnable, document,
                    rl_next_input, wait_result, stderr, n_wait, n_sep, n_reads,
                    n_final, SideVars >>

\* While run_cell executes, the shell calls ask_exit (an exit request)
AskExitCalled ==
    /\ pc = "executing"
    /\ keep_running
    /\ ask_exit
    /\ calls' = << Call("ask_exit", <<>>, <<>>) >>
    /\ UNCHANGED << pc, text, cursor_position, is_returnable, document,
                    run_cell_args, rl_next_input, wait_result, stderr, n_wait,
                    n_sep, n_reads, n_final, n_dispatch, SideVars >>

\* run_cell returns; the execution may have left a next input behind
RunCellReturn ==
    /\ pc = "executing"
    /\ run_cell_args' = None
    /\ \E nxt \in NextInputs : rl_next_input' = nxt
    /\ pc' = "loop"
    /\ calls' = <<>>
    /\ UNCHANGED << keep_running, text, cursor_position, is_returnable, document,
                    wait_result, stderr, n_wait, n_sep, n_reads, n_final,
                    n_dispatch, SideVars >>

----------------------------------------------------------------------------
(* History preload: init_prompt_toolkit_cli, run by __init__ *)

\* cells the kernel history may hold: "", "a", "b", "a " and " "
HistoryCells == { <<>>, <<"a">>, <<"b">>, <<"a", SP>>, <<SP>> }

RECURSIVE TailsUpTo(_)
TailsUpTo(n) ==
    IF n = 0 THEN { <<>> }
    ELSE LET shorter == TailsUpTo(n - 1) IN
         shorter \cup { Append(t, c) : t \in {u \in shorter : Len(u) = n - 1},
                                       c \in HistoryCells }

\* A variant of PreloadLoop that appends the cell as it came, unstripped
RECURSIVE PreloadLoop_NoStrip(_, _, _)
PreloadLoop_NoStrip(cells, last_cell, hist) ==
    IF cells = <<>> THEN hist
    ELSE LET cell == Head(cells) IN
         IF cell # <<>> /\ cell # last_cell
         THEN PreloadLoop_NoStrip(Tail(cells), last_cell, Append(hist, cell))
         ELSE PreloadLoop_NoStrip(Tail(cells), last_cell, hist)

\* The for loop over get_tail: `last_cell` is read in the test and is not
\* assigned in the loop body, so every iteration sees its initial value
RECURSIVE PreloadLoop(_, _, _)
PreloadLoop(cells, last_cell, hist) ==
    IF cells = <<>> THEN hist
    ELSE LET cell == RStrip(Head(cells)) IN
         IF cell # <<>> /\ cell # last_cell
         THEN PreloadLoop(Tail(cells), last_cell, Append(hist, cell))
         ELSE PreloadLoop(Tail(cells), last_cell, hist)

\* history = InMemoryHistory(); last_cell = u""; for ... in get_tail(...)
PreloadHistory(tail) == PreloadLoop(tail, <<>>, <<>>)

\* def __init__(self, **kwargs)
Construct ==
    /\ pc = "new"
    /\ history' = PreloadHistory(raw_tail)
    /\ keep_running' = TRUE
    /\ calls' = << Call("get_tail", <<>>, <<raw_tail>>) >>
    /\ pc' = "not_started"
    /\ UNCHANGED << text, cursor_position, is_returnable, document, run_cell_args,
                    rl_next_input, wait_result, stderr, n_wait, n_sep, n_reads,
                    n_final, n_dispatch, raw_tail, completions >>

InitHistory ==
    /\ pc = "new"
    /\ keep_running = FALSE
    /\ text = <<>>
    /\ cursor_position = 0
    /\ is_returnable = TRUE
    /\ document = None
    /\ run_cell_args = None
    /\ rl_next_input = None
    /\ wait_result = None
    /\ stderr = <<>>
    /\ n_wait = 0
    /\ n_sep = 0
    /\ n_reads = 0
    /\ n_final = 0
    /\ n_dispatch = 0
    /\ calls = <<>>
    /\ raw_tail \in TailsUpTo(MaxTail)
    /\ history = <<>>
    /\ completions = <<>>

NextHistory == Construct

SpecHistory == InitHistory /\ [][NextHistory]_vars

----------------------------------------------------------------------------
(* IPythonPTCompleter *)

\* what ipy_completer.complete may answer: the consumed text and the matches
UsedTexts == { <<>>, <<"f">>, <<"f", "o", "o">> }
MatchNames == {"foo", "foobar"}

RECURSIVE MatchLists(_)
MatchLists(n) ==
    IF n = 0 THEN { <<>> }
    ELSE LET shorter == MatchLists(n - 1) IN
         shorter \cup { Append(l, m) : l \in {u \in shorter : Len(u) = n - 1},
                                       m \in MatchNames }

\* Completion(m, start_position=start_pos)
Completion(m, start_pos) == [text |-> m, start_position |-> start_pos]

\* A variant of get_completions that tests the whole text for blankness
get_completions_WholeText(used, matches) ==
    /\ pc = "completing"
    /\ IF Strip(text) = <<>>
       THEN /\ completions' = <<>>
            /\ calls' = <<>>
       ELSE /\ calls' = << Call("complete",
                                << current_line(text, cursor_position),
                                   cursor_position_col(text, cursor_position) >>,
                                << used, matches >>) >>
            /\ completions' = [i \in 1..Len(matches) |->
                                  Completion(matches[i], -Len(used))]
    /\ pc' = "completed"
    /\ UNCHANGED << keep_running, text, cursor_position, is_returnable, document,
                    run_cell_args, rl_next_input, wait_result, stderr, n_wait,
                    n_sep, n_reads, n_final, n_dispatch, raw_tail, history >>

\* A variant of get_completions that anchors the completions after the cursor
get_completions_PositiveStart(used, matches) ==
    /\ pc = "completing"
    /\ IF Strip(current_line(text, cursor_position)) = <<>>
       THEN /\ completions' = <<>>
            /\ calls' = <<>>
       ELSE /\ calls' = << Call("complete",
                                << current_line(text, cursor_position),
                                   cursor_position_col(text, cursor_position) >>,
                                << used, matches >>) >>
            /\ completions' = [i \in 1..Len(matches) |->
                                  Completion(matches[i], Len(used))]
    /\ pc' = "completed"
    /\ UNCHANGED << keep_running, text, cursor_position, is_returnable, document,
                    run_cell_args, rl_next_input, wait_result, stderr, n_wait,
                    n_sep, n_reads, n_final, n_dispatch, raw_tail, history >>

\* def get_completions(self, document, complete_event); (used, matches) is
\* what the completion engine answers when it is asked
get_completions(used, matches) ==
    /\ pc = "completing"
    /\ IF Strip(current_line(text, cursor_position)) = <<>>
       THEN /\ completions' = <<>>
            /\ calls' = <<>>
       ELSE /\ calls' = << Call("complete",
                                << current_line(text, cursor_position),
                                   cursor_position_col(text, cursor_position) >>,
                                << used, matches >>) >>
            /\ completions' = [i \in 1..Len(matches) |->
                                  Completion(matches[i], -Len(used))]
    /\ pc' = "completed"
    /\ UNCHANGED << keep_running, text, cursor_position, is_returnable, document,
                    run_cell_args, rl_next_input, wait_result, stderr, n_wait,
                    n_sep, n_reads, n_final, n_dispatch, raw_tail, history >>

GetCompletions ==
    \E used \in UsedTexts, matches \in MatchLists(MaxMatches) :
        get_completions(used, matches)

RECURSIVE TextsUpTo(_)
TextsUpTo(n) ==
    IF n = 0 THEN { <<>> }
    ELSE LET shorter == TextsUpTo(n - 1) IN
         shorter \cup { Append(t, c) : t \in {u \in shorter : Len(u) = n - 1},
                                       c \in Chars }

InitCompleter ==
    /\ pc = "completing"
    /\ keep_running = TRUE
    /\ text \in TextsUpTo(MaxLen)
    /\ cursor_position \in 0..Len(text)
    /\ is_returnable = TRUE
    /\ document = None
    /\ run_cell_args = None
    /\ rl_next_input = None
    /\ wait_result = Some(TRUE)
    /\ stderr = <<>>
    /\ n_wait = 1
    /\ n_sep = 1
    /\ n_reads = 1
    /\ n_final = 0
    /\ n_dispatch = 0
    /\ calls = <<>>
    /\ raw_tail = <<>>
    /\ history = <<>>
    /\ completions = <<>>

NextCompleter == GetCompletions

SpecCompleter == InitCompleter /\ [][NextCompleter]_vars

----------------------------------------------------------------------------
(* The interactive loop *)

Init ==
    /\ pc = "not_started"
    /\ keep_running = TRUE
    /\ text = <<>>
    /\ cursor_position = 0
    /\ is_returnable \in BOOLEAN
    /\ document = None
    /\ run_cell_args = None
    /\ rl_next_input = None
    /\ wait_result = None
    /\ stderr = <<>>
    /\ n_wait = 0
    /\ n_sep = 0
    /\ n_reads = 0
    /\ n_final = 0
    /\ n_dispatch = 0
    /\ calls = <<>>
    /\ raw_tail = <<>>
    /\ history = <<>>
    /\ completions = <<>>

Next ==
    \/ InteractStart
    \/ WaitForKernel
    \/ LoopTest
    \/ InsertChar
    \/ CursorMove
    \/ EnterKey
    \/ ControlC
    \/ EndOfInput
    \/ ConfirmExit
    \/ ReadReturnsNone
    \/ Dispatch
    \/ AskExitCalled
    \/ RunCellReturn

Spec == Init /\ [][Next]_vars

\* The loop under the scheduling of a sequential program: the while test is
\* evaluated when control reaches it, and a run_cell call returns
SpecFair == Spec /\ WF_vars(LoopTest) /\ WF_vars(RunCellReturn)

TypeOK ==
    /\ pc \in PcValues
    /\ keep_running \in BOOLEAN
    /\ Len(text) <= MaxLen
    /\ cursor_position \in 0..Len(text)
    /\ n_reads \in 0..MaxReads

----------------------------------------------------------------------------
(* Properties *)

\* The step just taken was the Enter binding
EnterStep == calls # <<>> /\ calls[1].f \in {"newline", "check_complete"}

\* The step just taken was the Enter binding and it ran the completeness check
EnterChecked == calls # <<>> /\ calls[1].f = "check_complete"

NoConsecutiveDuplicates(h) == \A i \in 1..(Len(h) - 1) : h[i] # h[i + 1]

\* C1: after the preload the in-memory history holds no two consecutive
\* identical entries, and the raw tail ["a", "a", "", "b", "b"] gives ["a", "b"]
C1_PreloadCollapsesDuplicates ==
    pc = "not_started" =>
        /\ NoConsecutiveDuplicates(history)
        /\ (raw_tail = << <<"a">>, <<"a">>, <<>>, <<"b">>, <<"b">> >>
                => history = << <<"a">>, <<"b">> >>)

\* C1: the preload has run on a raw tail that repeats a cell
C1_Witness ==
    /\ pc = "not_started"
    /\ raw_tail = << <<"a">>, <<"a">>, <<>>, <<"b">>, <<"b">> >>
    /\ history = << <<"a">>, <<"a">>, <<"b">>, <<"b">> >>

\* C2: wait_for_kernel is called at most once and before any read or
\* dispatch; when it returns false, interact has printed the diagnostic and
\* returned, and no read and no run_cell dispatch has been made
C2_TimeoutNoReadNoDispatch ==
    /\ n_wait <= 1
    /\ (n_reads > 0 \/ n_dispatch > 0) => (n_wait = 1 /\ wait_result = Some(TRUE))
    /\ wait_result = Some(FALSE) =>
          /\ pc = "returned"
          /\ stderr = << "Kernel did not respond\n" >>
          /\ n_wait = 1
          /\ n_reads = 0
          /\ n_final = 0
          /\ n_dispatch = 0

\* C2: the kernel wait timed out and interact returned
C2_Witness ==
    /\ wait_result = Some(FALSE)
    /\ pc = "returned"
    /\ stderr # <<>>

\* What the completeness check answered in the Enter step just taken
CheckedStatus == calls[1].r[1]
CheckedIndent == IF calls[1].r[2] = None THEN 0 ELSE calls[1].r[2][1]

\* Enter is pressed in this step with the cursor at the end of the buffer
EnterAtEnd == pc = "reading" /\ cursor_position = Len(text) /\ EnterStep'

\* C3: Enter at the end of a returnable buffer that the check calls complete
\* ends the read with the full buffer text as its document; that document is
\* dispatched to run_cell once, with that text, before the next read begins
C3_CompleteEndsReadAndDispatchesOnce ==
    /\ [][ (EnterAtEnd /\ is_returnable /\ EnterChecked' /\ CheckedStatus' = "complete")
              => (pc' = "read_done" /\ document' = Some(text) /\ text' = text) ]_vars
    /\ [][ (pc = "loop" /\ pc' = "reading") => n_dispatch = n_final ]_vars
    /\ [](pc = "read_done" /\ document # None
              => (document = Some(text) /\ n_dispatch + 1 = n_final))
    /\ [](pc = "executing" => (run_cell_args[1] = text /\ n_dispatch = n_final))

\* C3: a two-line buffer was accepted as complete and is being executed
C3_Witness ==
    /\ pc = "executing"
    /\ is_returnable
    /\ text = << "a", NL, "a" >>
    /\ run_cell_args = << << "a", NL, "a" >>, TRUE >>
    /\ n_dispatch = 1

\* C4: Enter at the end of a buffer that the check calls incomplete with
\* indent n appends one newline and n spaces (none when no indent is given),
\* keeps the read open, finalizes nothing and dispatches nothing
C4_IncompleteInsertsNewlineAndIndent ==
    [][ (EnterAtEnd /\ EnterChecked' /\ CheckedStatus' = "incomplete")
          => /\ text' = text \o <<NL>> \o Spaces(CheckedIndent')
             /\ Len(text') = Len(text) + 1 + CheckedIndent'
             /\ cursor_position' = Len(text')
             /\ pc' = "reading"
             /\ document' = None
             /\ UNCHANGED << n_final, n_dispatch, run_cell_args >> ]_vars

\* C4: the check answered incomplete with indent 2 on the buffer "a"
C4_Witness ==
    /\ pc = "reading"
    /\ EnterChecked
    /\ calls[1].r = << "incomplete", Some(2) >>
    /\ calls[2].f = "insert_text"
    /\ text = << "a", NL, SP, SP >>

\* C5 as stated: Enter at the end of the buffer finalizes exactly when the
\* status is complete, or the buffer is returnable and the status is not
\* incomplete
C5_FinalizesWhenCompleteOrReturnable ==
    [][ (EnterAtEnd /\ EnterChecked')
          => ((pc' = "read_done")
                <=> (CheckedStatus' = "complete"
                       \/ (is_returnable /\ CheckedStatus' # "incomplete"))) ]_vars

\* C5 amended: Enter at the end of the buffer finalizes exactly when the
\* buffer is returnable and the status is not incomplete; in every other
\* case it inserts the newline and the auto-indent and stays in the read
C5_FinalizesWhenReturnableAndNotIncomplete ==
    [][ (EnterAtEnd /\ EnterChecked')
          => IF is_returnable /\ CheckedStatus' \in {"complete", "invalid"}
             THEN /\ pc' = "read_done"
                  /\ document' = Some(text)
                  /\ text' = text
                  /\ n_final' = n_final + 1
             ELSE /\ pc' = "reading"
                  /\ text' = text \o <<NL>> \o Spaces(CheckedIndent')
                  /\ document' = None
                  /\ n_final' = n_final ]_vars

\* C5: the check answered complete on a buffer that is not returnable, and
\* the read went on with a new line
C5_Witness ==
    /\ pc = "reading"
    /\ ~is_returnable
    /\ EnterChecked
    /\ CheckedStatus = "complete"
    /\ text = << "a", NL >>

\* Lines of t from row r (0-based) on that hold something other than blanks
HasTextFromRow(t, r) ==
    \E j \in (r + 1)..Len(Split(t)) : ~IsBlankLine(Split(t)[j])

\* What the Enter binding does when it takes the plain newline path
PlainNewlineStep ==
    /\ calls' = << Call("newline", <<>>, <<>>) >>
    /\ text' = InsertAt(text, cursor_position, <<NL>>)
    /\ pc' = "reading"
    /\ UNCHANGED << document, n_final, n_dispatch, run_cell_args >>

\* C6 as stated: Enter with the cursor not on the last line inserts a plain
\* newline only, whatever the buffer, without running the completeness check
C6_NotLastLineIsPlainNewline ==
    [][ (pc = "reading" /\ EnterStep' /\ ~on_last_line(text, cursor_position))
          => PlainNewlineStep ]_vars

\* C6 amended: Enter with the cursor not on the last line, when the cursor's
\* line or a line below it holds text, inserts a plain newline only; when the
\* cursor's line and all lines below it are blank, the completeness check runs
\* as on the last line
C6_AboveTextIsPlainNewline ==
    [][ (pc = "reading" /\ EnterStep' /\ ~on_last_line(text, cursor_position))
          => IF HasTextFromRow(text, cursor_position_row(text, cursor_position))
             THEN PlainNewlineStep
             ELSE EnterChecked' ]_vars

\* C6: Enter on the first line of "a", newline, "a" put a plain newline there
C6_Witness ==
    /\ pc = "reading"
    /\ calls = << Call("newline", <<>>, <<>>) >>
    /\ text = << "a", NL, NL, "a" >>
    /\ cursor_position = 2

\* C7: a read that returned a document is followed by one run_cell call with
\* the document's text and store_history=True, whether the text is empty or
\* not; no document waits undispatched anywhere else in the loop
C7_EveryDocumentDispatchedOnce ==
    /\ [][ (pc = "read_done" /\ document # None)
              => /\ pc' = "executing"
                 /\ run_cell_args' = << document[1], TRUE >>
                 /\ calls' = << Call("run_cell", << document[1], TRUE >>, <<>>) >>
                 /\ n_dispatch' = n_dispatch + 1 ]_vars
    /\ [][ n_dispatch' # n_dispatch => (pc = "read_done" /\ document # None) ]_vars
    /\ [](pc = "read_done" => ENABLED Dispatch)
    /\ [](IF pc = "read_done" /\ document # None
          THEN n_final = n_dispatch + 1
          ELSE n_final = n_dispatch)

\* C7: an empty document is being executed
C7_Witness ==
    /\ pc = "executing"
    /\ document = Some(<<>>)
    /\ run_cell_args = << <<>>, TRUE >>

\* C8: end-of-input leads to the exit confirmation without a dispatch; a yes
\* stops the loop before any further read or dispatch, a no leads to a new read
C8_EndOfInputAsksExit ==
    /\ [][ (pc = "reading" /\ pc' = "confirm_exit")
              => UNCHANGED << n_dispatch, n_final, document, run_cell_args, keep_running >> ]_vars
    /\ [](pc = "confirm_exit" => (document = None /\ run_cell_args = None))
    /\ [][ pc = "confirm_exit"
              => /\ pc' = "loop"
                 /\ calls'[1].f = "ask_yes_no"
                 /\ keep_running' = ~calls'[1].r[1]
                 /\ UNCHANGED << n_reads, n_dispatch, n_final >> ]_vars
    /\ [][ pc = "loop"
              => IF keep_running
                 THEN pc' = "reading" /\ n_reads' = n_reads + 1 /\ n_dispatch' = n_dispatch
                 ELSE pc' = "returned" /\ UNCHANGED << n_reads, n_dispatch >> ]_vars
    /\ [][ pc = "returned" => UNCHANGED << n_reads, n_dispatch >> ]_vars

\* C8: the exit was declined and the controller reads again
C8_Witness ==
    /\ pc = "reading"
    /\ n_reads = 2
    /\ n_dispatch = 0
    /\ n_final = 0
    /\ keep_running
    /\ calls[1].f = "print"

\* C9: ControlC during a read empties the buffer and changes nothing else
C9_InterruptOnlyResetsBuffer ==
    [][ (calls' # <<>> /\ calls'[1].f = "reset")
          => /\ pc = "reading"
             /\ pc' = "reading"
             /\ text' = <<>>
             /\ cursor_position' = 0
             /\ keep_running /\ keep_running'
             /\ UNCHANGED << is_returnable, document, run_cell_args, rl_next_input,
                             wait_result, stderr, n_wait, n_sep, n_reads, n_final,
                             n_dispatch, raw_tail, history, completions >> ]_vars

\* C9: ControlC was the last key of an open read
C9_Witness ==
    /\ pc = "reading"
    /\ calls = << Call("reset", <<>>, <<>>) >>
    /\ text = <<>>
    /\ n_reads = 1

\* C10: on a document whose current line is empty or blank, get_completions
\* yields no completion and does not call the completion engine
C10_BlankLineNoCompletions ==
    (pc = "completed" /\ IsBlankLine(current_line(text, cursor_position)))
        => (completions = <<>> /\ calls = <<>>)

\* C10: get_completions ran with the cursor on a blank line below a line of text
C10_Witness ==
    /\ pc = "completed"
    /\ text = << "a", NL, SP >>
    /\ cursor_position = 3
    /\ completions = <<>>

\* Characters between the start of the cursor's line and the cursor
ColumnOf(t, c) ==
    LET breaks == {i \in 1..c : t[i] = NL} IN
    IF breaks = {} THEN c
    ELSE c - (CHOOSE i \in breaks : \A j \in breaks : j <= i)

\* C11: on a document whose current line is not blank, get_completions asks
\* the completion engine once, with the whole current line and the cursor
\* column, and yields one completion per match, in the engine's order, each
\* starting at minus the length of the consumed text
C11_NonBlankLineCompletions ==
    (pc = "completed" /\ ~IsBlankLine(current_line(text, cursor_position)))
        => /\ Len(calls) = 1
           /\ calls[1].f = "complete"
           /\ calls[1].a = << current_line(text, cursor_position),
                              ColumnOf(text, cursor_position) >>
           /\ LET used == calls[1].r[1]
                  matches == calls[1].r[2]
              IN /\ Len(completions) = Len(matches)
                 /\ \A i \in 1..Len(matches) :
                      /\ completions[i].text = matches[i]
                      /\ completions[i].start_position = 0 - Len(used)

\* C11: the engine consumed "foo" and answered foo, foobar on the second
\* line of a document
C11_Witness ==
    /\ pc = "completed"
    /\ text = << "a", NL, "a" >>
    /\ cursor_position = 3
    /\ calls # <<>>
    /\ calls[1].r = << << "f", "o", "o" >>, << "foo", "foobar" >> >>
    /\ completions = << [text |-> "foo", start_position |-> -3],
                        [text |-> "foobar", start_position |-> -3] >>

\* The cell c without its trailing whitespace is the entry e
StrippedIs(c, e) ==
    /\ Len(e) <= Len(c)
    /\ SubSeq(c, 1, Len(e)) = e
    /\ \A i \in (Len(e) + 1)..Len(c) : c[i] \in Whitespace
    /\ (e # <<>> => e[Len(e)] \notin Whitespace)

\* The entries h are, in order, the stripped forms of some non-blank cells of t
RECURSIVE KeptInOrder(_, _)
KeptInOrder(h, t) ==
    IF h = <<>> THEN TRUE
    ELSE IF t = <<>> THEN FALSE
    ELSE IF ~IsBlankLine(Head(t)) /\ StrippedIs(Head(t), Head(h))
              /\ KeptInOrder(Tail(h), Tail(t))
         THEN TRUE
         ELSE KeptInOrder(h, Tail(t))

\* C12: the preloaded history holds no blank entry; its entries are, in the
\* raw tail's order, cells of the raw tail with the trailing whitespace
\* stripped, blank cells are skipped, and there are no more entries than cells
C12_PreloadSkipsBlanksAndStrips ==
    pc = "not_started" =>
        /\ \A i \in 1..Len(history) : ~IsBlankLine(history[i])
        /\ \A i \in 1..Len(history) : history[i][Len(history[i])] \notin Whitespace
        /\ KeptInOrder(history, raw_tail)
        /\ Len(history) <= Cardinality({i \in 1..Len(raw_tail) : ~IsBlankLine(raw_tail[i])})
        /\ Len(history) <= Len(raw_tail)
        /\ Len(raw_tail) <= MaxTail

\* C12: the preload has run on a tail with a blank cell, a cell that ends in
\* whitespace and a plain cell
C12_Witness ==
    /\ pc = "not_started"
    /\ raw_tail = << <<SP>>, <<"a", SP>>, <<>>, <<"b">> >>
    /\ history = << <<"a">>, <<"b">> >>

\* The operation the controller is blocked on, told from the calls in flight
WaitingForKernel == n_wait = 1 /\ wait_result = None
WaitingForInput == pc \in {"reading", "confirm_exit"}
WaitingForDispatch == run_cell_args # None

\* The states of the controller
AwaitingKernelState == pc = "awaiting_kernel"
PromptingState == pc \in {"loop", "reading", "read_done", "confirm_exit"}
ExecutingState == pc = "executing"
ExitingState == pc = "returned"

\* C13: once interact has started the controller is in exactly one of the
\* states awaiting-kernel, prompting, executing, exiting and is blocked on at
\* most one operation; a read begins only when no dispatch is in flight, and a
\* dispatch begins only after a read that returned a document since the last
\* dispatch
C13_ReadsAndDispatchesAlternate ==
    /\ [](pc # "not_started" =>
            Cardinality({s \in {"awaiting", "prompting", "executing", "exiting"} :
                           \/ (s = "awaiting" /\ AwaitingKernelState)
                           \/ (s = "prompting" /\ PromptingState)
                           \/ (s = "executing" /\ ExecutingState)
                           \/ (s = "exiting" /\ ExitingState)}) = 1)
    /\ [](Cardinality({b \in {"kernel", "input", "dispatch"} :
                           \/ (b = "kernel" /\ WaitingForKernel)
                           \/ (b = "input" /\ WaitingForInput)
                           \/ (b = "dispatch" /\ WaitingForDispatch)}) <= 1)
    /\ [](WaitingForKernel <=> AwaitingKernelState)
    /\ [](WaitingForDispatch <=> ExecutingState)
    /\ [](n_dispatch <= n_final /\ n_final <= n_reads)
    /\ [][ n_reads' # n_reads
              => /\ n_reads' = n_reads + 1
                 /\ run_cell_args = None /\ run_cell_args' = None
                 /\ n_dispatch = n_final ]_vars
    /\ [][ n_dispatch' # n_dispatch
              => /\ n_dispatch' = n_dispatch + 1
                 /\ pc = "read_done" /\ document # None
                 /\ run_cell_args = None
                 /\ n_final = n_dispatch + 1 ]_vars

\* C13: a second read is open after the first dispatch returned
C13_Witness ==
    /\ pc = "reading"
    /\ n_reads = 2
    /\ n_dispatch = 1
    /\ n_final = 1
    /\ run_cell_args = None

\* C14: every read is started right after one separator line is printed, so
\* the separators printed always equal the reads started, also for a read
\* that follows a declined exit confirmation
C14_OneSeparatorPerRead ==
    /\ [](n_sep = n_reads)
    /\ [][ n_reads' # n_reads
              => /\ n_sep' = n_sep + 1
                 /\ Len(calls') = 2
                 /\ calls'[1].f = "print" /\ calls'[1].a = << NL >>
                 /\ calls'[2].f = "pt_cli.run" ]_vars
    /\ [][ n_sep' # n_sep => n_reads' = n_reads + 1 ]_vars
    /\ [][ (pc = "confirm_exit" /\ keep_running') => UNCHANGED << n_sep, n_reads >> ]_vars

\* C14: a second read was started after a read that returned no document
C14_Witness ==
    /\ pc = "reading"
    /\ n_reads = 2
    /\ n_sep = 2
    /\ n_final = 0
    /\ calls # <<>>
    /\ calls[1].f = "print"

\* C15: once keep_running is false it stays false, no read is started and no
\* dispatch is made any more; a dispatch in flight at that moment returns
\* first, then the while test ends the loop and interact returns
C15_NoReadNoDispatchAfterExitRequest ==
    /\ [][ ~keep_running
              => /\ ~keep_running'
                 /\ UNCHANGED << n_reads, n_dispatch, n_sep, n_final >> ]_vars
    /\ [](~keep_running => pc \in {"executing", "loop", "returned"})
    /\ [][ (~keep_running /\ pc = "executing")
              => (pc' = "loop" /\ run_cell_args' = None) ]_vars
    /\ [][ (~keep_running /\ pc = "loop") => pc' = "returned" ]_vars
    /\ [][ (keep_running /\ ~keep_running')
              => /\ pc \in {"confirm_exit", "executing"}
                 /\ calls'[Len(calls')].f = "ask_exit"
                 /\ (pc = "executing" => (pc' = "executing" /\ run_cell_args' = run_cell_args)) ]_vars
    /\ (~keep_running ~> pc = "returned")

\* C15: ask_exit was called during a dispatch, the dispatch returned and
\* interact has returned
C15_Witness ==
    /\ pc = "returned"
    /\ ~keep_running
    /\ wait_result = Some(TRUE)
    /\ n_dispatch = 1
    /\ n_reads = 1

\* C16: after a successful kernel wait interact has returned only with
\* keep_running false, and keep_running becomes false only by ask_exit, called
\* on a confirmed exit or during a dispatch; ControlC, a declined exit, an
\* empty submission and a read without a document leave keep_running true
\* and the loop running
C16_LoopEndsOnlyByAskExit ==
    /\ [](pc = "returned" /\ wait_result = Some(TRUE) => ~keep_running)
    /\ [][ (pc # "returned" /\ pc' = "returned")
              => \/ (pc = "awaiting_kernel" /\ wait_result' = Some(FALSE))
                 \/ (pc = "loop" /\ ~keep_running) ]_vars
    /\ [][ keep_running' # keep_running
              => /\ ~keep_running'
                 /\ calls'[Len(calls')].f = "ask_exit"
                 /\ \/ pc = "executing"
                    \/ (pc = "confirm_exit" /\ calls'[1].f = "ask_yes_no"
                          /\ calls'[1].r = << TRUE >>) ]_vars
    /\ [][ (calls' # <<>> /\ calls'[1].f = "reset")
              => (keep_running' /\ pc' = "reading") ]_vars
    /\ [][ (pc = "confirm_exit" /\ calls'[1].r = << FALSE >>)
              => (keep_running' /\ pc' = "loop") ]_vars
    /\ [][ (pc = "read_done" /\ document = Some(<<>>))
              => (keep_running' /\ pc' = "executing") ]_vars
    /\ [][ (pc = "read_done" /\ document = None)
              => (keep_running' /\ pc' = "loop") ]_vars
    /\ [][ (pc = "loop" /\ keep_running) => pc' = "reading" ]_vars

\* C16: the loop went through three reads, one of them dispatched, before a
\* confirmed exit ended it
C16_Witness ==
    /\ pc = "returned"
    /\ wait_result = Some(TRUE)
    /\ ~keep_running
    /\ n_reads = 3
    /\ n_dispatch = 1
    /\ run_cell_args = None

\* The step just taken started a read
ReadStarted == n_reads' = n_reads + 1

\* C17: a non-empty rl_next_input becomes the buffer text of the next read
\* and is set to None in the same step, so it fills one prompt at most; with
\* rl_next_input None or empty the read starts on the buffer text as it was
\* handed over, and rl_next_input is left as it is
C17_NextInputFillsOnePrompt ==
    /\ [][ (ReadStarted /\ rl_next_input # None /\ rl_next_input[1] # <<>>)
              => (text' = rl_next_input[1] /\ rl_next_input' = None) ]_vars
    /\ [][ (ReadStarted /\ (rl_next_input = None \/ rl_next_input = Some(<<>>)))
              => (text' = <<>> /\ rl_next_input' = rl_next_input) ]_vars
    /\ [](pc \in {"reading", "read_done", "confirm_exit"}
              => (rl_next_input = None \/ rl_next_input = Some(<<>>)))
    /\ [][ rl_next_input' # rl_next_input
              => (pc = "executing" \/ (ReadStarted /\ rl_next_input' = None)) ]_vars

\* C17: the second read starts on the text "a" left in rl_next_input
C17_Witness ==
    /\ pc = "reading"
    /\ n_reads = 2
    /\ n_dispatch = 1
    /\ text = << "a" >>
    /\ rl_next_input = None
    /\ calls # <<>>
    /\ calls[1].f = "print"

====
